---------------------------- MODULE Spec2Model ----------------------------
(* A model of src/app.py, the "4-Day Live Training Tracker".                *)
(*                                                                          *)
(* The program is a Streamlit script: every user action re-executes the     *)
(* whole file top to bottom (DB setup, passcode gate, navigation, one       *)
(* view).  One script run is one action of Spec.  The store is the SQLite   *)
(* file tracker.db, modelled by the record db.                              *)
(*                                                                          *)
(* Conventions.  A nullable value is <<>> (NULL / NaN / a missing cell) or  *)
(* <<v>>.  REAL columns filled from the forms hold multiples of 0.5 (the    *)
(* forms' step), so weight and rir are counted in halves: 45 is 22.5 kg.    *)
(* Dates are day ordinals, day 0 being a Monday.                            *)
EXTENDS Integers, Sequences, FiniteSets, TLC

VARIABLES
    passcode,   \* PASSCODE, read from the environment (line 14)
    authed,     \* st.session_state["authed"]: "unset", "false" or "true"
    db,         \* tracker.db
    uploader,   \* the file held by the Import file_uploader (line 350)
    lastRun,    \* what the last script run (or function call) did
    saved,      \* the argument of the last update_settings that committed
    attempts,   \* wrong passcode attempts so far (saturating)
    fnArgs,     \* function-level specifications: the arguments drawn
    fnResult    \* function-level specifications: <<>> or <<result>>

vars == <<passcode, authed, db, uploader, lastRun, saved, attempts, fnArgs, fnResult>>

(***************************** bounds **************************************)
MaxRows == 2
MaxMetrics == 1
MaxPhotos == 1
MaxAttempts == 2
MaxEntries == 3
MaxHalves == 5
MaxReps == 38
MaxSide == 3

(***************************** values **************************************)
None == <<>>
Some(v) == <<v>>
IsNone(o) == o = <<>>
Val(o) == o[1]

Min2(a, b) == IF a <= b THEN a ELSE b
Max2(a, b) == IF a >= b THEN a ELSE b
Abs(a) == IF a < 0 THEN -a ELSE a

(***************************** CONFIG **************************************)
DEFAULT_MACROS ==
    [calories |-> 2450, protein_g |-> 190, fat_g |-> 60,
     carb_g_rest |-> 220, carb_g_lift |-> 280, carb_g_football |-> 320]

TDEE_EST == 3000

\* DEFAULT_MACROS | {"tdee": TDEE_EST}
DefaultSettings ==
    [k \in DOMAIN DEFAULT_MACROS \cup {"tdee"} |->
        IF k = "tdee" THEN TDEE_EST ELSE DEFAULT_MACROS[k]]

SettingKeys == <<"calories", "protein_g", "fat_g", "carb_g_rest",
                 "carb_g_lift", "carb_g_football", "tdee">>

\* PROGRAM: day name -> exercise names, in order (the schemes and notes of
\* the triples are display text only).
PROGRAM ==
    [d \in {"Monday - Push", "Tuesday - Lower A (Squat)",
            "Thursday - Pull", "Friday - Lower B (Hinge)"} |->
        CASE d = "Monday - Push" ->
                <<"Incline DB Press", "Flat DB Press", "Cable/Pec Deck Fly",
                  "Seated DB OHP", "Lateral Raise", "Cable Rope Pressdown",
                  "Ab Wheel (opt.)">>
          [] d = "Tuesday - Lower A (Squat)" ->
                <<"Leg Press (full depth)", "DB RDL",
                  "Bulgarian Split Squat (Smith)", "Leg Extension",
                  "Standing Calf Raise", "Hanging Leg Raise">>
          [] d = "Thursday - Pull" ->
                <<"Lat Pulldown (machine)", "Chest-Supported DB Row",
                  "One-Arm Cable Row", "Rear-Delt Fly", "EZ-Bar Curl",
                  "Incline DB Curl", "Pallof Press">>
          [] OTHER ->
                <<"Hip Thrust (Smith)", "Single-Leg RDL (DB)",
                  "Leg Curl (machine)", "Front Squat or Leg Press",
                  "Seated Calf Raise", "Copenhagen Side Plank">>]

(***************************** DB SETUP ************************************)
TableNames == {"workouts", "body_metrics", "photos", "settings"}

Range(f) == {f[i] : i \in DOMAIN f}

WorkoutCols == <<"id", "session_date", "day_name", "exercise", "sets", "reps",
                 "weight", "rir", "notes">>
MetricCols == <<"id", "metric_date", "weight_kg", "waist_cm", "sleep_h",
                "steps", "calories">>
PhotoCols == <<"id", "photo_date", "caption", "image_b64">>
SettingCols == <<"id">> \o SettingKeys

\* The columns of a table, in the order of its CREATE TABLE.
ColSeq(name) ==
    CASE name = "workouts" -> WorkoutCols
      [] name = "body_metrics" -> MetricCols
      [] name = "photos" -> PhotoCols
      [] OTHER -> SettingCols

Columns(name) == Range(ColSeq(name))

\* The database file before the first run: no table exists.
NoDb ==
    [tables |-> {}, workouts |-> <<>>, body_metrics |-> <<>>, photos |-> <<>>,
     settings |-> <<>>,
     seq |-> [workouts |-> 0, body_metrics |-> 0, photos |-> 0]]

SeedRow == [id |-> 1] @@ DefaultSettings

StartupReseed(d) ==
    \* a bug: the seed row is written without the COUNT(*) check
    [d EXCEPT !.tables = TableNames, !.settings = <<SeedRow>>]

\* Lines 71-126: CREATE TABLE IF NOT EXISTS x 4, then seed settings if empty.
Startup(d) ==
    [d EXCEPT !.tables = TableNames,
              !.settings = IF Len(d.settings) = 0 THEN <<SeedRow>>
                           ELSE d.settings]

(***************************** UTILS ***************************************)
\* load_table(name): SELECT * FROM name, as a frame [columns, rows].
load_table(d, name) == [columns |-> ColSeq(name), rows |-> d[name]]

\* The ids of the rows of a table.
Ids(rows) == {Val(rows[i].id) : i \in 1..Len(rows)}

\* One INSERT of DataFrame.to_sql(name, if_exists="append", index=False):
\* the frame's columns are set, the others are NULL; a NULL or absent id is
\* taken from the AUTOINCREMENT sequence.
RowFor(name, r, id) ==
    [c \in Columns(name) |->
        IF c = "id" THEN Some(id)
        ELSE IF c \in DOMAIN r THEN r[c] ELSE None]

RECURSIVE InsertAll(_, _, _, _)
\* Returns [ok, rows, seq]; ok is FALSE on a PRIMARY KEY conflict.
InsertAll(name, rows, seq, frame) ==
    IF frame = <<>> THEN [ok |-> TRUE, rows |-> rows, seq |-> seq]
    ELSE LET r == Head(frame)
             explicit == "id" \in DOMAIN r /\ ~IsNone(r.id)
             id == IF explicit THEN Val(r.id) ELSE seq + 1
         IN  IF id \in Ids(rows)
             THEN [ok |-> FALSE, rows |-> rows, seq |-> seq]
             ELSE InsertAll(name, Append(rows, RowFor(name, r, id)),
                            Max2(seq, id), Tail(frame))

to_sql_replace(d, name, df) ==
    \* a bug: if_exists="replace", the table is dropped and made anew
    IF ~(Range(df.columns) \subseteq Columns(name)) THEN [ok |-> FALSE, db |-> d]
    ELSE LET res == InsertAll(name, <<>>, 0, df.rows)
         IN  [ok |-> res.ok,
              db |-> [d EXCEPT ![name] = res.rows, !.seq[name] = res.seq]]

\* df.to_sql(name, engine, if_exists="append", index=False) on the frame
\* [columns, rows].  pandas runs the inserts in one transaction: an unknown
\* column or a key conflict raises and leaves the table as it was.
to_sql(d, name, df) ==
    IF ~(Range(df.columns) \subseteq Columns(name)) THEN [ok |-> FALSE, db |-> d]
    ELSE LET res == InsertAll(name, d[name], d.seq[name], df.rows)
         IN  IF res.ok
             THEN [ok |-> TRUE,
                   db |-> [d EXCEPT ![name] = res.rows, !.seq[name] = res.seq]]
             ELSE [ok |-> FALSE, db |-> d]

\* pd.DataFrame(rows) of a list of dicts with the keys cols, in that order.
DataFrame(cols, rows) == [columns |-> cols, rows |-> rows]

write_workout(d, rows) == to_sql(d, "workouts", DataFrame(Tail(WorkoutCols), rows))

write_metric(d, row) == to_sql(d, "body_metrics", DataFrame(Tail(MetricCols), <<row>>))

(* Image.thumbnail((1280, 1280)) of Pillow, on an image of w x h pixels.    *)
(* round_aspect(number, key) = max(min(floor, ceil, key=key), 1); min keeps *)
(* the floor on a tie.  The quotients are compared exactly, by cross        *)
(* multiplication.                                                          *)
THUMB == 1280

Floor(n, d) == n \div d
Ceil(n, d) == IF n % d = 0 THEN n \div d ELSE (n \div d) + 1

thumbnail_width_only(w, h) ==
    \* a bug: only the width is fitted
    IF THUMB >= w THEN [w |-> w, h |-> h]
    ELSE [w |-> THUMB, h |-> Max2(Floor(THUMB * h, w), 1)]

thumbnail(w, h) ==
    IF THUMB >= w /\ THUMB >= h THEN [w |-> w, h |-> h]
    ELSE IF w <= h
    THEN \* x / y >= aspect: x = round_aspect(y * aspect), key |aspect - n / y|
         LET fl == Floor(THUMB * w, h)
             ce == Ceil(THUMB * w, h)
             pick == IF Abs(THUMB * w - fl * h) <= Abs(THUMB * w - ce * h)
                     THEN fl ELSE ce
         IN  [w |-> Max2(pick, 1), h |-> THUMB]
    ELSE \* y = round_aspect(x / aspect), key 0 if n == 0 else |aspect - x / n|
         LET fl == Floor(THUMB * h, w)
             ce == Ceil(THUMB * h, w)
             pick == IF fl = 0 THEN fl
                     ELSE IF Abs(w * fl - THUMB * h) * ce
                             <= Abs(w * ce - THUMB * h) * fl
                     THEN fl ELSE ce
         IN  [w |-> THUMB, h |-> Max2(pick, 1)]

\* write_photo: open, convert, thumbnail, re-encode as JPEG, base64, insert.
\* The stored payload is modelled by the size of the image it decodes to.
write_photo(d, photo_date, caption, file) ==
    LET img == thumbnail(file.w, file.h)
    IN  to_sql(d, "photos",
               DataFrame(Tail(PhotoCols),
                         <<[photo_date |-> Some(photo_date),
                            caption |-> Some(caption),
                            image_b64 |-> Some(img)]>>))

\* get_settings: the first row as a dict, or the defaults if there is none.
get_settings(d) ==
    LET s == load_table(d, "settings")
    IN  IF Len(s.rows) # 0 THEN s.rows[1] ELSE DefaultSettings

(* update_settings(d).  vals maps keys to <<"int", n>> or <<"str", s>>, a   *)
(* key may be absent.  The argument dict of execute is built first, key by  *)
(* key: a missing key raises KeyError, a non-numeric string ValueError.     *)
(* Then the one UPDATE runs inside engine.begin(): the block commits on     *)
(* exit and rolls back on an exception.  fault names where the store        *)
(* fails: "none", "execute" or "commit".                                    *)
IntOk(vals, k) == k \in DOMAIN vals /\ vals[k][1] = "int"

ParamsOk(vals) == \A i \in 1..Len(SettingKeys) : IntOk(vals, SettingKeys[i])

UpdatedRow(row, vals) ==
    [c \in DOMAIN row |-> IF c = "id" THEN row[c] ELSE vals[c][2]]

UpdateNoTxn(d, vals, fault) ==
    \* a bug: one autocommitted UPDATE per column, parameters read as it goes
    LET n == Len(SettingKeys)
        bad == {i \in 1..n : ~IntOk(vals, SettingKeys[i])}
        stop == IF bad # {} THEN CHOOSE i \in bad : \A j \in bad : i <= j
                ELSE IF fault = "execute" THEN 4
                ELSE n + 1
        done == {SettingKeys[i] : i \in 1..(stop - 1)}
        new == [i \in 1..Len(d.settings) |->
                   IF d.settings[i].id = 1
                   THEN [c \in DOMAIN d.settings[i] |->
                            IF c \in done THEN vals[c][2] ELSE d.settings[i][c]]
                   ELSE d.settings[i]]
    IN  [ok |-> stop = n + 1 /\ fault # "commit",
         db |-> [d EXCEPT !.settings = new]]

UpdateNoTdee(d, vals, fault) ==
    \* a bug: tdee=:tdee is missing from the SET list
    IF ~ParamsOk(vals) THEN [ok |-> FALSE, db |-> d]
    ELSE LET txn == [i \in 1..Len(d.settings) |->
                        IF d.settings[i].id = 1
                        THEN [UpdatedRow(d.settings[i], vals) EXCEPT
                                 !.tdee = d.settings[i].tdee]
                        ELSE d.settings[i]]
         IN  IF fault = "none"
             THEN [ok |-> TRUE, db |-> [d EXCEPT !.settings = txn]]
             ELSE [ok |-> FALSE, db |-> d]

update_settings(d, vals, fault) ==
    IF ~ParamsOk(vals) THEN [ok |-> FALSE, db |-> d]
    ELSE LET txn == [i \in 1..Len(d.settings) |->
                        IF d.settings[i].id = 1
                        THEN UpdatedRow(d.settings[i], vals)
                        ELSE d.settings[i]]
         IN  IF fault = "none"
             THEN [ok |-> TRUE, db |-> [d EXCEPT !.settings = txn]]
             ELSE [ok |-> FALSE, db |-> d]

(* e1rm(weight, reps), the Brzycki estimate.  weight is <<>> (NaN) or       *)
(* <<halves>>, reps is <<>> or <<n>>.  Results: NaN, a quotient n / d of    *)
(* integers (d > 0), or the ZeroDivisionError Python raises for 36 / 0.     *)
NaN == [kind |-> "nan", n |-> 0, d |-> 1]
ZeroDivisionError == [kind |-> "raise", n |-> 0, d |-> 1]
Num(n, d) == IF d < 0 THEN [kind |-> "num", n |-> -n, d |-> -d]
             ELSE [kind |-> "num", n |-> n, d |-> d]

\* a / b on numbers
Div(a, b) ==
    IF a.kind # "num" THEN a
    ELSE IF b.kind # "num" THEN b
    ELSE IF b.n = 0 THEN ZeroDivisionError
    ELSE Num(a.n * b.d, a.d * b.n)

\* a * b on numbers
Mul(a, b) ==
    IF a.kind # "num" THEN a
    ELSE IF b.kind # "num" THEN b
    ELSE Num(a.n * b.n, a.d * b.d)

Halves(h) == Num(h, 2)
Int2Num(i) == Num(i, 1)

\* equality of values
SameNum(a, b) ==
    /\ a.kind = b.kind
    /\ a.kind = "num" => a.n * b.d = b.n * a.d

e1rm_36(weight, reps) ==
    \* a bug: 36 for 37 in the denominator
    IF IsNone(weight) \/ IsNone(reps) \/ Val(reps) <= 0 THEN NaN
    ELSE Mul(Halves(Val(weight)), Div(Int2Num(36), Int2Num(36 - Val(reps))))

e1rm(weight, reps) ==
    IF IsNone(weight) \/ IsNone(reps) \/ Val(reps) <= 0 THEN NaN
    ELSE Mul(Halves(Val(weight)), Div(Int2Num(36), Int2Num(37 - Val(reps))))

(************************ Dashboard: weekly volume *************************)
\* Grouper(key="session_date", freq="W-MON"): weekly bins that end on a
\* Monday, labelled by that Monday.
WeekBucket(t) == t + ((7 - (t % 7)) % 7)

\* w["volume"] = w["sets"] * w["reps"] * w["weight"]: NaN if one is missing.
volume(r) ==
    IF IsNone(r.sets) \/ IsNone(r.reps) \/ IsNone(r.weight) THEN None
    ELSE Some(Val(r.sets) * Val(r.reps) * Val(r.weight))

\* groupby drops the rows whose key is missing.
GroupKey(r) ==
    IF IsNone(r.session_date) \/ IsNone(r.day_name) THEN None
    ELSE Some(<<WeekBucket(Val(r.session_date)), Val(r.day_name)>>)

RECURSIVE GroupSum(_, _)
\* ["volume"].sum(), row by row in table order; sum skips NaN.
GroupSum(rows, acc) ==
    IF rows = <<>> THEN acc
    ELSE LET r == Head(rows)
             k == GroupKey(r)
             v == volume(r)
         IN  IF IsNone(k) THEN GroupSum(Tail(rows), acc)
             ELSE LET key == Val(k)
                      old == IF key \in DOMAIN acc THEN acc[key] ELSE 0
                      add == IF IsNone(v) THEN 0 ELSE Val(v)
                  IN  GroupSum(Tail(rows),
                               [x \in DOMAIN acc \cup {key} |->
                                   IF x = key THEN old + add ELSE acc[x]])

RECURSIVE GroupLast(_, _)
\* a bug: the last value of each group instead of the sum
GroupLast(rows, acc) ==
    IF rows = <<>> THEN acc
    ELSE LET r == Head(rows)
             k == GroupKey(r)
             v == volume(r)
         IN  IF IsNone(k) THEN GroupLast(Tail(rows), acc)
             ELSE GroupLast(Tail(rows),
                            [x \in DOMAIN acc \cup {Val(k)} |->
                                IF x = Val(k)
                                THEN (IF IsNone(v) THEN 0 ELSE Val(v))
                                ELSE acc[x]])

\* read_sql leaves a column whose every value is NULL as objects (None), and
\* sets * reps * weight on such a column raises TypeError; a column with some
\* NULLs is float64 with NaN.
AllMissing(rows, c) == rows # <<>> /\ \A i \in 1..Len(rows) : IsNone(rows[i][c])

VolumeRaises(rows) == \E c \in {"sets", "reps", "weight"} : AllMissing(rows, c)

weekly_volume_last(rows) ==
    [raised |-> VolumeRaises(rows),
     sums |-> IF VolumeRaises(rows) THEN <<>> ELSE GroupLast(rows, <<>>)]

\* Lines 213-215: group key -> summed volume, or the TypeError of line 214.
weekly_volume(rows) ==
    [raised |-> VolumeRaises(rows),
     sums |-> IF VolumeRaises(rows) THEN <<>> ELSE GroupSum(rows, <<>>)]

\* Line 220.
key_lifts == {"Incline DB Press", "Leg Press (full depth)", "Hip Thrust (Smith)",
              "Chest-Supported DB Row"}

\* Lines 211-224 on the rows of workouts: FALSE if the charts raise.
ChartsRender(rows) ==
    \/ rows = <<>>
    \/ /\ ~weekly_volume(rows).raised
       /\ \A i \in 1..Len(rows) :
             (~IsNone(rows[i].exercise) /\ Val(rows[i].exercise) \in key_lifts)
                 => e1rm(rows[i].weight, rows[i].reps).kind # "raise"

(************************ Data Export/Import: CSV **************************)
TextCols == {"day_name", "exercise", "notes", "caption"}

\* A CSV file is [header, lines]: a line is the sequence of its cells in the
\* header's order, a cell is <<>> (nothing between the commas) or <<v>>.
\* to_csv writes NaN/None and the empty string alike as an empty cell.
Cell(col, v) ==
    IF IsNone(v) THEN <<>>
    ELSE IF col \in TextCols /\ Val(v) = "" THEN <<>>
    ELSE v

to_csv(df) ==
    [header |-> df.columns,
     lines |-> [i \in 1..Len(df.rows) |->
                  [j \in 1..Len(df.columns) |->
                      Cell(df.columns[j], df.rows[i][df.columns[j]])]]]

IndexOf(seq, x) == CHOOSE j \in 1..Len(seq) : seq[j] = x

\* pd.read_csv: the header names the columns; an empty cell reads as NaN.
read_csv(f) ==
    [columns |-> f.header,
     rows |-> [i \in 1..Len(f.lines) |->
                 [c \in Range(f.header) |-> f.lines[i][IndexOf(f.header, c)]]]]

(***************************** AUTH ****************************************)
\* Lines 168-179: the run goes on to the navigation only if no passcode is
\* configured or the session is authed; otherwise it ends at st.stop().
GateOpenAlways == TRUE

GateOpen == passcode = "" \/ authed = "true"

(***************************** inputs **************************************)
Passcodes == {"", "s3cret"}
Codes == {"", "s3cret", "guess"}
Faults == {"none", "execute", "commit"}

\* What the Log Workout form is given: [1, 10] sets, [1, 30] reps,
\* [0, 500] kg in steps of 0.5, RIR in [0, 4].
LogInputs ==
    {[session_date |-> Some(1), day_name |-> Some(day),
      exercise |-> Some(PROGRAM[day][1]), sets |-> Some(3), reps |-> Some(8),
      weight |-> Some(wt), rir |-> Some(3), notes |-> Some("")] :
        day \in {"Monday - Push"}, wt \in {0, 50}}

\* The Body Metrics form left at its defaults (87.6 kg is 876 tenths).
MetricInput ==
    [metric_date |-> Some(1), weight_kg |-> Some(876), waist_cm |-> Some(930),
     sleep_h |-> Some(75), steps |-> Some(9000),
     calories |-> Some(DEFAULT_MACROS["calories"])]

PhotoFiles == {None, Some([w |-> 4000, h |-> 3000])}

CutSettings ==
    [calories |-> 2200, protein_g |-> 200, fat_g |-> 55, carb_g_rest |-> 200,
     carb_g_lift |-> 260, carb_g_football |-> 300, tdee |-> 2900]

SettingInputs == {DefaultSettings, CutSettings}

\* s as the Settings form hands it to update_settings: ints under every key.
AsArg(s) == [k \in DOMAIN s |-> <<"int", s[k]>>]

\* A hand-written file with the eight documented columns and one line,
\* its weight cell empty.
HandCsv ==
    [header |-> Tail(WorkoutCols),
     lines |-> << <<Some(1), Some("Monday - Push"), Some("Flat DB Press"),
                    Some(4), Some(10), None, Some(2), Some("PR")>> >>]

\* A file with a column the table does not have.
BadCsv == [header |-> <<"date", "lift">>, lines |-> << <<Some(1), Some("Row")>> >>]

(***************************** script runs *********************************)
\* lastRun: the view run, what the user did to cause the run ("open": no
\* button; "press": the view's button), the accessors called, the write
\* attempted and whether it went through.
NoRun == [view |-> "none", ui |-> "none", calls |-> {}, op |-> "none", ok |-> TRUE]

Ran(view, ui, calls, op, ok) ==
    [view |-> view, ui |-> ui, calls |-> calls, op |-> op, ok |-> ok]

Ui(press) == IF press THEN "press" ELSE "open"

\* Lines 170-179: the passcode prompt.  A right code sets authed and asks
\* for a rerun; every other run ends at st.stop().
Locked(code, press) ==
    /\ ~GateOpen
    /\ db' = Startup(db)
    /\ authed' = IF press /\ code = passcode THEN "true" ELSE "false"
    /\ attempts' = IF press /\ code # passcode
                   THEN Min2(attempts + 1, MaxAttempts) ELSE attempts
    /\ lastRun' = Ran("locked", Ui(press), {}, IF press THEN "unlock" ELSE "none",
                      ~press \/ code = passcode)
    /\ UNCHANGED <<passcode, uploader, saved, fnArgs, fnResult>>

\* Lines 188-230.
Dashboard ==
    /\ GateOpen
    /\ db' = Startup(db)
    /\ uploader' = None
    /\ lastRun' = Ran("Dashboard", "open", {"load_table", "get_settings"}, "none",
                      ChartsRender(load_table(Startup(db), "workouts").rows))
    /\ UNCHANGED <<passcode, authed, saved, attempts, fnArgs, fnResult>>

\* Lines 233-265.
LogWorkout(entry, press) ==
    /\ GateOpen
    /\ press => Len(db.workouts) < MaxRows
    /\ LET res == write_workout(Startup(db), <<entry>>)
       IN  /\ db' = IF press THEN res.db ELSE Startup(db)
           /\ lastRun' = IF press
                         THEN Ran("Log Workout", Ui(press), {"write_workout"},
                                  "write_workout", res.ok)
                         ELSE Ran("Log Workout", Ui(press), {}, "none", TRUE)
    /\ uploader' = None
    /\ UNCHANGED <<passcode, authed, saved, attempts, fnArgs, fnResult>>

\* Lines 268-291.
BodyMetrics(press) ==
    /\ GateOpen
    /\ press => Len(db.body_metrics) < MaxMetrics
    /\ LET res == write_metric(Startup(db), MetricInput)
       IN  /\ db' = IF press THEN res.db ELSE Startup(db)
           /\ lastRun' = IF press
                         THEN Ran("Body Metrics", Ui(press), {"write_metric", "load_table"},
                                  "write_metric", res.ok)
                         ELSE Ran("Body Metrics", Ui(press), {"load_table"}, "none", TRUE)
    /\ uploader' = None
    /\ UNCHANGED <<passcode, authed, saved, attempts, fnArgs, fnResult>>

\* Lines 294-312.
Photos(file, press) ==
    /\ GateOpen
    /\ (press /\ ~IsNone(file)) => Len(db.photos) < MaxPhotos
    /\ IF press /\ ~IsNone(file)
       THEN LET res == write_photo(Startup(db), 1, "", Val(file))
            IN  /\ db' = res.db
                /\ lastRun' = Ran("Photos", Ui(press), {"write_photo", "load_table"},
                                  "write_photo", res.ok)
       ELSE /\ db' = Startup(db)
            /\ lastRun' = Ran("Photos", Ui(press), {"load_table"}, "none", TRUE)
    /\ uploader' = None
    /\ UNCHANGED <<passcode, authed, saved, attempts, fnArgs, fnResult>>

\* Lines 315-332.
Settings(s, press, fault) ==
    /\ GateOpen
    /\ IF press
       THEN LET res == update_settings(Startup(db), AsArg(s), fault)
            IN  /\ db' = res.db
                /\ saved' = IF res.ok THEN Some(s) ELSE saved
                /\ lastRun' = Ran("Settings", Ui(press),
                                  {"load_table", "get_settings", "update_settings"},
                                  "update_settings", res.ok)
       ELSE /\ db' = Startup(db)
            /\ saved' = saved
            /\ lastRun' = Ran("Settings", Ui(press), {"load_table", "get_settings"},
                              "none", TRUE)
    /\ uploader' = None
    /\ UNCHANGED <<passcode, authed, attempts, fnArgs, fnResult>>

\* The workouts CSV the Export view offers (lines 337-345).
ExportedCsv(d) == to_csv(load_table(d, "workouts"))

\* Lines 335-354.  ui is what the user did to cause the run: "rerun" (the
\* view is opened, or one of its download buttons is pressed: the uploader
\* keeps its file), "clear", or the upload of a file.
Held(d, ui) ==
    CASE ui = "rerun" -> uploader
      [] ui = "clear" -> None
      [] ui = "upload_export" -> Some(ExportedCsv(d))
      [] ui = "upload_hand" -> Some(HandCsv)
      [] OTHER -> Some(BadCsv)

ExportImport(ui) ==
    /\ GateOpen
    /\ LET d1 == Startup(db)
           f == Held(d1, ui)
       IN  /\ uploader' = f
           /\ IF ~IsNone(f)
              THEN LET res == to_sql(d1, "workouts", read_csv(Val(f)))
                   IN  /\ Len(res.db.workouts) <= MaxRows
                       /\ db' = res.db
                       /\ lastRun' = Ran("Data Export/Import", ui,
                                         {"load_table", "import"}, "import", res.ok)
              ELSE /\ db' = d1
                   /\ lastRun' = Ran("Data Export/Import", ui, {"load_table"},
                                     "none", TRUE)
    /\ UNCHANGED <<passcode, authed, saved, attempts, fnArgs, fnResult>>

Init ==
    /\ passcode \in Passcodes
    /\ authed = "unset"
    /\ db = NoDb
    /\ uploader = None
    /\ lastRun = NoRun
    /\ saved = None
    /\ attempts = 0
    /\ fnArgs = <<>>
    /\ fnResult = <<>>

Next ==
    \/ \E code \in Codes, press \in BOOLEAN : Locked(code, press)
    \/ Dashboard
    \/ \E entry \in LogInputs, press \in BOOLEAN : LogWorkout(entry, press)
    \/ \E press \in BOOLEAN : BodyMetrics(press)
    \/ \E file \in PhotoFiles, press \in BOOLEAN : Photos(file, press)
    \/ \E s \in SettingInputs, press \in BOOLEAN, fault \in Faults :
          Settings(s, press, fault)
    \/ \E ui \in {"rerun", "clear", "upload_export", "upload_hand", "upload_bad"} :
          ExportImport(ui)

Spec == Init /\ [][Next]_vars

(******************* function-level specifications *************************)
\* The application at rest, after the startup block has run once.
AtRest ==
    /\ passcode = ""
    /\ authed = "unset"
    /\ db = Startup(NoDb)
    /\ uploader = None
    /\ lastRun = NoRun
    /\ saved = None
    /\ attempts = 0

appVars == <<passcode, authed, db, uploader, lastRun, saved, attempts>>

Without(f, k) == [x \in DOMAIN f \ {k} |-> f[x]]

\* Arguments of update_settings: the two well-formed dicts, and CutSettings
\* with one key missing or one value that int() rejects.
ArgDicts ==
    {AsArg(x) : x \in SettingInputs}
    \cup {Without(AsArg(CutSettings), k) : k \in Range(SettingKeys)}
    \cup {[AsArg(CutSettings) EXCEPT ![k] = <<"str", "abc">>] : k \in Range(SettingKeys)}

Ints(vals) == [k \in DOMAIN vals |-> vals[k][2]]

CallUpdateSettings(vals, fault) ==
    /\ LET res == update_settings(db, vals, fault)
       IN  /\ db' = res.db
           /\ saved' = IF res.ok THEN Some(Ints(vals)) ELSE saved
           /\ lastRun' = Ran("none", "call", {"update_settings"}, "update_settings", res.ok)
    /\ fnArgs' = <<vals, fault>>
    /\ UNCHANGED <<passcode, authed, uploader, attempts, fnResult>>

InitSettings == AtRest /\ fnArgs = <<>> /\ fnResult = <<>>

NextSettings == \E vals \in ArgDicts, fault \in Faults : CallUpdateSettings(vals, fault)

SpecSettings == InitSettings /\ [][NextSettings]_vars

\* e1rm on weights of -0.5 .. MaxHalves / 2 kg and 100 kg, or missing, and
\* reps of -1 .. MaxReps, or missing.
E1rmWeights == {None} \cup {Some(h) : h \in (-1..MaxHalves) \cup {200}}
E1rmReps == {None} \cup {Some(n) : n \in -1..MaxReps}

InitE1rm ==
    /\ AtRest
    /\ fnArgs \in [weight : E1rmWeights, reps : E1rmReps]
    /\ fnResult = <<>>

ApplyE1rm ==
    /\ fnResult = <<>>
    /\ fnResult' = Some(e1rm(fnArgs.weight, fnArgs.reps))
    /\ UNCHANGED <<appVars, fnArgs>>

SpecE1rm == InitE1rm /\ [][ApplyE1rm]_vars

\* Workout rows for the volume chart: Tuesday and Monday of one W-MON bin
\* and the Tuesday of the next, two sessions, weight 22.5 kg or missing.
VolumeEntries ==
    {[id |-> None, session_date |-> Some(t), day_name |-> Some(day),
      exercise |-> Some(PROGRAM[day][1]), sets |-> Some(3), reps |-> Some(8),
      weight |-> wt, rir |-> Some(3), notes |-> None] :
        t \in {1, 7, 8}, day \in {"Monday - Push", "Thursday - Pull"},
        wt \in {None, Some(45)}}

InitVolume == AtRest /\ fnArgs = <<>> /\ fnResult = <<>>

AddEntry(e) ==
    /\ Len(fnArgs) < MaxEntries
    /\ fnArgs' = Append(fnArgs, e)
    /\ fnResult' = <<>>
    /\ UNCHANGED appVars

Aggregate ==
    /\ fnArgs # <<>>
    /\ fnResult' = Some(weekly_volume(fnArgs))
    /\ UNCHANGED <<appVars, fnArgs>>

NextVolume == (\E e \in VolumeEntries : AddEntry(e)) \/ Aggregate

SpecVolume == InitVolume /\ [][NextVolume]_vars

\* Image sides: 1 .. MaxSide, around the limit, multiples of it, and the
\* largest side a JPEG can have.
Sides == (1..MaxSide) \cup {640, 1279, 1280, 1281, 1920, 2559, 2560, 2561, 4000, 65535}

InitPhoto == AtRest /\ fnArgs = <<>> /\ fnResult = <<>>

CallWritePhoto(w, h) ==
    /\ Len(db.photos) < MaxPhotos
    /\ LET res == write_photo(db, 1, "", [w |-> w, h |-> h])
       IN  /\ db' = res.db
           /\ lastRun' = Ran("none", "call", {"write_photo"}, "write_photo", res.ok)
    /\ fnArgs' = [w |-> w, h |-> h]
    /\ UNCHANGED <<passcode, authed, uploader, saved, attempts, fnResult>>

NextPhoto == \E w \in Sides, h \in Sides : CallWritePhoto(w, h)

SpecPhoto == InitPhoto /\ [][NextPhoto]_vars

(***************************** the claims **********************************)

(* C1.  update_settings is all-or-nothing: a call that fails (a missing     *)
(* key, a value int() rejects, a store failure at the UPDATE or at the      *)
(* commit) leaves the settings row as it was, and no reachable row mixes    *)
(* values of two dicts.                                                     *)
C1_NoMix == \A i \in 1..Len(db.settings) : Without(db.settings[i], "id") \in SettingInputs

C1_AllOrNothing ==
    /\ []C1_NoMix
    /\ [][(lastRun'.op = "update_settings" /\ ~lastRun'.ok)
            => db'.settings = db.settings]_vars

\* A call that failed after its first keys were read, on a row that holds
\* other values than the ones passed.
C1_Witness ==
    /\ lastRun.op = "update_settings" /\ ~lastRun.ok
    /\ fnArgs # <<>>
    /\ "calories" \in DOMAIN fnArgs[1] /\ fnArgs[1]["calories"] = <<"int", 2200>>
    /\ "tdee" \notin DOMAIN fnArgs[1]
    /\ db.settings[1].calories = 2450

(* C5.  e1rm is NaN exactly when the weight is missing, the reps are        *)
(* missing or reps <= 0; otherwise it is weight * 36 / (37 - reps) (the     *)
(* division by zero at reps = 37 included); for reps in 1..36 and a weight  *)
(* >= 0 it is a number; 100 kg for 8 reps gives 3600 / 29.                  *)
C5_Reference(halves, reps) ==
    Div(Mul(Halves(halves), Int2Num(36)), Int2Num(37 - reps))

C5_E1rm ==
    fnResult # <<>> =>
        LET w == fnArgs.weight
            r == fnArgs.reps
            out == Val(fnResult)
            undefined == IsNone(w) \/ IsNone(r) \/ Val(r) <= 0
        IN  /\ (out.kind = "nan") <=> undefined
            /\ ~undefined => SameNum(out, C5_Reference(Val(w), Val(r)))
            /\ (~undefined /\ Val(r) \in 1..36 /\ Val(w) >= 0) => out.kind = "num"
            /\ (w = Some(200) /\ r = Some(8)) => SameNum(out, Num(3600, 29))

C5_Witness == fnResult # <<>> /\ fnArgs = [weight |-> Some(200), reps |-> Some(8)]

(* C6.  The weekly volume sums do not depend on the order of the rows, and  *)
(* the sum of a group over two of its entries A and B is volume(A) +        *)
(* volume(B).  As amended: ... over two of its entries A and B whose sets,  *)
(* reps and weight are all present is volume(A) + volume(B).                *)
C6_Permuted(rows, p) == [i \in 1..Len(rows) |-> rows[p[i]]]

C6_OrderIndependent ==
    \A p \in Permutations(1..Len(fnArgs)) :
        weekly_volume(C6_Permuted(fnArgs, p)) = Val(fnResult)

C6_SameGroup(i, j) ==
    /\ i # j
    /\ ~IsNone(GroupKey(fnArgs[i]))
    /\ GroupKey(fnArgs[i]) = GroupKey(fnArgs[j])

\* The sum of the group of A = fnArgs[i] over <<A, B>>, <<>> if there is none.
C6_PairSum(i, j) ==
    LET out == weekly_volume(<<fnArgs[i], fnArgs[j]>>)
    IN  IF out.raised THEN None ELSE Some(out.sums[Val(GroupKey(fnArgs[i]))])

\* volume(A) + volume(B) in the code's own arithmetic: NaN if either is.
C6_Plus(a, b) == IF IsNone(a) \/ IsNone(b) THEN None ELSE Some(Val(a) + Val(b))

C6_Volume ==
    fnResult # <<>> =>
        /\ C6_OrderIndependent
        /\ \A i, j \in 1..Len(fnArgs) :
              (C6_SameGroup(i, j) /\ ~IsNone(volume(fnArgs[i]))
                                 /\ ~IsNone(volume(fnArgs[j])))
                  => C6_PairSum(i, j) = C6_Plus(volume(fnArgs[i]), volume(fnArgs[j]))

C6_Original ==
    fnResult # <<>> =>
        /\ C6_OrderIndependent
        /\ \A i, j \in 1..Len(fnArgs) :
              C6_SameGroup(i, j)
                  => C6_PairSum(i, j) = C6_Plus(volume(fnArgs[i]), volume(fnArgs[j]))

\* Aggregated rows with two entries of one group, both with a volume, and
\* an entry of another group without weight.
C6_Witness ==
    /\ fnResult # <<>> /\ ~Val(fnResult).raised
    /\ \E i, j, k \in 1..Len(fnArgs) :
          /\ C6_SameGroup(i, j)
          /\ ~IsNone(volume(fnArgs[i])) /\ ~IsNone(volume(fnArgs[j]))
          /\ fnArgs[i].session_date # fnArgs[j].session_date
          /\ GroupKey(fnArgs[k]) # GroupKey(fnArgs[i])
          /\ IsNone(volume(fnArgs[k]))

(* C7.  Every image write_photo stores is at most 1280 x 1280 and at least  *)
(* 1 x 1, whatever the size of the upload.                                  *)
C7_PhotoSize ==
    \A i \in 1..Len(db.photos) :
        LET img == Val(db.photos[i].image_b64)
        IN  img.w >= 1 /\ img.w <= 1280 /\ img.h >= 1 /\ img.h <= 1280

\* A 65535 x 1 upload was stored (as 1280 x 1).
C7_Witness ==
    /\ lastRun.op = "write_photo" /\ lastRun.ok
    /\ fnArgs = [w |-> 65535, h |-> 1]
    /\ Len(db.photos) >= 1
    /\ Val(db.photos[Len(db.photos)].image_b64) = [w |-> 1280, h |-> 1]

(* C2.  Export then import of workouts is a round trip: importing the       *)
(* exported workouts CSV succeeds and appends as many rows as were          *)
(* exported, each with the field values of the exported row.                *)
C2_SameFields(a, b) == \A c \in Columns("workouts") \ {"id"} : a[c] = b[c]

C2_RoundTrip ==
    [][(lastRun'.ui = "upload_export")
        => LET n == Len(db.workouts)
           IN  /\ lastRun'.op = "import" /\ lastRun'.ok
               /\ Len(db'.workouts) = n + n
               /\ \A i \in 1..n : C2_SameFields(db'.workouts[n + i], db.workouts[i])]_vars

(* C3.  workouts, body_metrics and photos are append-only: no run removes   *)
(* a row of them or changes one.                                            *)
C3_Kept(t) ==
    /\ Len(db'[t]) >= Len(db[t])
    /\ \A i \in 1..Len(db[t]) : db'[t][i] = db[t][i]

C3_AppendOnly ==
    [][C3_Kept("workouts") /\ C3_Kept("body_metrics") /\ C3_Kept("photos")]_vars

\* An import has appended to a table that held a row, in a database whose
\* settings row was overwritten and whose other tables hold rows.
C3_Witness ==
    /\ lastRun.op = "import" /\ lastRun.ok
    /\ Len(db.workouts) = 2
    /\ Len(db.body_metrics) = 1 /\ Len(db.photos) = 1
    /\ db.settings[1].calories = 2200

(* C4.  With a passcode configured, a run of a session that is not authed   *)
(* ends at the prompt and calls no accessor; authed becomes true only by    *)
(* Unlock with the right code, never goes back, a wrong code leaves it      *)
(* false, and the right code is accepted after any number of wrong ones.    *)
C4_Gate ==
    /\ [][(passcode # "" /\ authed # "true")
            => (lastRun'.view = "locked" /\ lastRun'.calls = {})]_vars
    /\ [][(authed # "true" /\ authed' = "true")
            => (lastRun'.op = "unlock" /\ lastRun'.ui = "press" /\ lastRun'.ok)]_vars
    /\ [][authed = "true" => authed' = "true"]_vars
    /\ [][(lastRun'.op = "unlock" /\ ~lastRun'.ok) => authed' = "false"]_vars
    /\ []((passcode # "" /\ authed # "true") => ENABLED Locked(passcode, TRUE))

\* Unlocked after MaxAttempts wrong codes, and a view has run since.
C4_Witness ==
    /\ passcode # "" /\ authed = "true" /\ attempts = MaxAttempts
    /\ lastRun.view = "Data Export/Import" /\ lastRun.op = "import"

(* C8.  The startup block is idempotent and keeps settings a singleton: it  *)
(* leaves the rows of every table as they are, seeds the default row        *)
(* (id 1, DEFAULT_MACROS, tdee 3000) only into an empty settings table,     *)
(* and after the first startup settings holds exactly one row, with id 1.   *)
C8_Seed ==
    [id |-> 1, calories |-> 2450, protein_g |-> 190, fat_g |-> 60,
     carb_g_rest |-> 220, carb_g_lift |-> 280, carb_g_football |-> 320,
     tdee |-> 3000]

C8_Startup ==
    /\ Startup(Startup(db)) = Startup(db)
    /\ \A t \in {"workouts", "body_metrics", "photos"} : Startup(db)[t] = db[t]
    /\ db.settings # <<>> => Startup(db).settings = db.settings
    /\ db.settings = <<>> => Startup(db).settings = <<C8_Seed>>
    /\ db.tables # {} => (Len(db.settings) = 1 /\ db.settings[1].id = 1
                          /\ Startup(db) = db)

\* The startup block has run on a database whose settings row was
\* overwritten and whose tables hold rows.
C8_Witness ==
    /\ lastRun.view = "Dashboard"
    /\ Len(db.settings) = 1 /\ db.settings[1].calories = 2200
    /\ Len(db.workouts) > 0 /\ Len(db.photos) > 0

(* C9.  get_settings returns the seven values of the last update_settings   *)
(* that went through, or the defaults if none did; on an empty settings     *)
(* table it returns the defaults.                                           *)
C9_Defaults ==
    [calories |-> 2450, protein_g |-> 190, fat_g |-> 60, carb_g_rest |-> 220,
     carb_g_lift |-> 280, carb_g_football |-> 320, tdee |-> 3000]

C9_ReadAfterWrite ==
    /\ db.tables # {} =>
          Without(get_settings(db), "id") =
              (IF IsNone(saved) THEN C9_Defaults ELSE Val(saved))
    /\ get_settings([db EXCEPT !.settings = <<>>]) = C9_Defaults

\* An update went through, a later one failed.
C9_Witness ==
    /\ saved = Some(CutSettings)
    /\ lastRun.op = "update_settings" /\ ~lastRun.ok

(* C10.  An uploaded CSV is imported once: the upload of n rows grows       *)
(* workouts by n, and the re-executions of the view while the uploader      *)
(* holds the file add nothing.                                              *)
C10_ImportedOnce ==
    /\ [][(lastRun'.ui = "upload_hand")
            => Len(db'.workouts) = Len(db.workouts) + Len(HandCsv.lines)]_vars
    /\ [][(lastRun'.view = "Data Export/Import" /\ lastRun'.ui = "rerun")
            => db'.workouts = db.workouts]_vars

=============================================================================
